---- MODULE Spec2Model ----
(***************************************************************************)
(* Model of vs-deploy's value engine (values.ts: ValueBase.otherValues,    *)
(* getValues, replaceWithValues, resetScriptStates, toValueObjects) and of *)
(* the HTTP deploy plugin (HttpPlugin.deployFile).                         *)
(*                                                                         *)
(* Four specifications share the module:                                   *)
(*   SpecDeploy  - one call of HttpPlugin.deployFile and its callbacks     *)
(*   SpecReplace - calls of replaceWithValues on bounded inputs            *)
(*   SpecValues  - toValueObjects / getValues on bounded configurations    *)
(*   SpecStates  - the script states and resetScriptStates                 *)
(* Strings that the code scans or normalises are sequences of one-char     *)
(* strings.                                                                *)
(***************************************************************************)
EXTENDS Integers, Sequences, FiniteSets, TLC

VARIABLES
    \* ---- HttpPlugin.deployFile ----
    opts,            \* the callbacks of DeployFileOptions and whether they throw
    target,          \* the target: whether it is missing, what URL.parse gives for its url
    relativePath,    \* result of deploy_helpers.toRelativePath(file): "false" / "ok"
    callState,       \* "notCalled" / "returned" / "threw" (exception left deployFile)
    pending,         \* the asynchronous callback awaited: none / lstat / readFile / http
    protocol,        \* local `protocol` once computed, "unset" before
    respSeen,        \* the response callback of HTTP.request has run
    errSeen,         \* the req.once('error') listener has run
    statusCode,      \* resp.statusCode of the response seen (0 before)
    completions,     \* the `error` of every onCompleted invocation, in order
    log,             \* the steps of the call, in order
    uncaught,        \* an exception left an asynchronous callback
    \* ---- replaceWithValues ----
    rvValues,        \* argument `values`
    rvVal,           \* argument `val`: null/undefined, or its string
    rvResult,        \* what the call returned, once it has been made
    \* ---- getValues / toValueObjects ----
    cfgValues,       \* me.config.values of the pass
    myName,          \* me.name of the deployer
    objs,            \* the array the last call returned
    lastCall,        \* "none" / "toValueObjects" / "getValues"
    \* ---- script and code states ----
    globalScriptValueState,   \* the global bag, undefined until it is reset
    scriptValueStates,        \* the bag keyed by script path, likewise
    lastOp,                   \* the last operation on the bags and what it saw
    writtenSinceReset,        \* history: script paths assigned since the last reset
    \* ---- parsePlaceHolders of HttpPlugin.deployFile ----
    phUrl,           \* target.url, the text holding the tokens
    phHeader,        \* the value of a header of target.headers
    phName,          \* Path.basename(file)
    targetUrl,       \* the URL text handed to URL.parse
    headersToSubmit, \* the header value handed to the request
    phStep           \* "read" / "url" / "dispatched"

deployVars == <<opts, target, relativePath, callState, pending, protocol, respSeen,
                errSeen, statusCode, completions, log, uncaught>>

replaceVars == <<rvValues, rvVal, rvResult>>

valueVars == <<cfgValues, myName, objs, lastCall>>

stateVars == <<globalScriptValueState, scriptValueStates, lastOp, writtenSinceReset>>

placeholderVars == <<phUrl, phHeader, phName, targetUrl, headersToSubmit, phStep>>

vars == <<deployVars, replaceVars, valueVars, stateVars, placeholderVars>>

----------------------------------------------------------------------------
(* HttpPlugin.deployFile *)

NoError == [kind |-> "none", code |-> 0]

Err(kind) == [kind |-> kind, code |-> 0]

RespErr(kind, code) == [kind |-> kind, code |-> code]

\* The statuses a server can answer with, around every boundary of the
\* classification.
StatusCodes == {100, 199, 200, 204, 299, 300, 304, 399, 400, 404, 499,
                500, 503, 599, 600, 999}

\* targetUrl.protocol as URL.parse returns it: null without a scheme,
\* else the lower-cased scheme with its colon.
UrlProtocols == {"null", "http:", "https:", "ftp:", "file:"}

OptionSets ==
    { o \in [onCompleted : BOOLEAN, onCompletedThrows : BOOLEAN,
             onBeforeDeploy : BOOLEAN, onBeforeDeployThrows : BOOLEAN] :
        /\ o.onCompletedThrows => o.onCompleted
        /\ o.onBeforeDeployThrows => o.onBeforeDeploy }

Targets == {[missing |-> TRUE, protocol |-> "null"]}
           \cup [missing : {FALSE}, protocol : UrlProtocols]

\* The running effect of synchronous code: what it appended so far and
\* whether an exception is propagating.
Frame(c, l) == [completions |-> c, log |-> l, threw |-> FALSE]

\* completed(err): calls opts.onCompleted when supplied; an exception of
\* the callback propagates to the caller of completed.
Completed(st, err) ==
    IF opts.onCompleted
    THEN [completions |-> Append(st.completions, err),
          log         |-> Append(st.log, "onCompleted"),
          threw       |-> opts.onCompletedThrows]
    ELSE [st EXCEPT !.threw = FALSE]

\* The synchronous body of deployFile: up to FS.lstat(file, ...).
DeployFileBody ==
    LET st0 == Frame(completions, log) IN
    IF relativePath = "false"
    THEN \* completed(new Error("Cannot get relative path ...")); return;
         LET st1 == Completed(st0, Err("RelativePath")) IN
         [st |-> st1, pending |-> "none",
          call |-> IF st1.threw THEN "threw" ELSE "returned"]
    ELSE IF target.missing
    THEN \* target.url of undefined: a TypeError ahead of the try block
         [st |-> st0, pending |-> "none", call |-> "threw"]
    ELSE LET st1 == IF opts.onBeforeDeploy
                    THEN [st0 EXCEPT !.log = Append(@, "onBeforeDeploy"),
                                     !.threw = opts.onBeforeDeployThrows]
                    ELSE st0
         IN  IF st1.threw
             THEN \* catch (e) { completed(e); }
                  LET st2 == Completed(st1, Err("Exception")) IN
                  [st |-> st2, pending |-> "none",
                   call |-> IF st2.threw THEN "threw" ELSE "returned"]
             ELSE [st |-> [st1 EXCEPT !.log = Append(@, "lstat")],
                   pending |-> "lstat", call |-> "returned"]

DeployFile ==
    /\ callState = "notCalled"
    /\ LET r == DeployFileBody IN
         /\ completions' = r.st.completions
         /\ log' = r.st.log
         /\ pending' = r.pending
         /\ callState' = r.call
    /\ UNCHANGED <<opts, target, relativePath, protocol, respSeen, errSeen,
                   statusCode, uncaught>>
    /\ UNCHANGED <<replaceVars, valueVars, stateVars, placeholderVars>>

\* The callback of FS.lstat.
OnLstatNoReturn(err) ==
    LET st0 == Frame(completions, log)
        st1 == IF err THEN Completed(st0, Err("Stat")) ELSE st0
    IN  [st |-> [st1 EXCEPT !.log = @ \o <<"lstatDone", "readFile">>],
         pending |-> "readFile"]

OnLstat(err) ==
    LET st0 == Frame(completions, log) IN
    IF err
    THEN [st |-> Completed(st0, Err("Stat")), pending |-> "none"]
    ELSE [st |-> [st0 EXCEPT !.log = @ \o <<"lstatDone", "readFile">>],
          pending |-> "readFile"]

LstatCallback ==
    /\ pending = "lstat"
    /\ \E err \in BOOLEAN :
         LET r == OnLstat(err) IN
           /\ completions' = r.st.completions
           /\ log' = r.st.log
           /\ pending' = r.pending
           /\ uncaught' = (uncaught \/ r.st.threw)
    /\ UNCHANGED <<opts, target, relativePath, callState, protocol, respSeen,
                   errSeen, statusCode>>
    /\ UNCHANGED <<replaceVars, valueVars, stateVars, placeholderVars>>

\* toStringSafe(targetUrl.protocol).toLowerCase().trim(), 'http:' when empty.
ResolveProtocol(p) ==
    LET s == IF p = "null" THEN "" ELSE p IN
    IF s = "" THEN "http:" ELSE s

\* switch (protocol): the supported protocols.
IsSupportedProtocolAny(p) == TRUE

IsSupportedProtocol(p) == p \in {"http:", "https:"}

\* The callback of FS.readFile. throwAt names the statement of the guarded
\* block that throws: "parse" (placeholders, URL.parse, headers),
\* "request" (HTTP.request rejecting its options), or "none".
OnReadFile(err, throwAt) ==
    LET st0 == Frame(completions, log) IN
    IF err
    THEN [st |-> Completed(st0, Err("Read")), pending |-> "none",
          protocol |-> protocol]
    ELSE
      LET st1 == [st0 EXCEPT !.log = Append(@, "readFileDone")] IN
      IF throwAt = "parse"
      THEN [st |-> Completed(st1, Err("Exception")), pending |-> "none",
            protocol |-> protocol]
      ELSE
        LET p == ResolveProtocol(target.protocol) IN
        IF ~IsSupportedProtocol(p)
        THEN \* completed(new Error("Protocol ... is not supported!")); return;
             \* an exception of onCompleted lands in the catch block
             LET st2 == Completed(st1, Err("NotSupported"))
                 st3 == IF st2.threw THEN Completed(st2, Err("Exception"))
                        ELSE st2
             IN  [st |-> st3, pending |-> "none", protocol |-> p]
        ELSE IF throwAt = "request"
        THEN [st |-> Completed(st1, Err("Exception")), pending |-> "none",
              protocol |-> p]
        ELSE [st |-> [st1 EXCEPT !.log = @ \o <<"request", "write", "end">>],
              pending |-> "http", protocol |-> p]

ReadFileCallback ==
    /\ pending = "readFile"
    /\ \E err \in BOOLEAN, throwAt \in {"none", "parse", "request"} :
         LET r == OnReadFile(err, throwAt) IN
           /\ completions' = r.st.completions
           /\ log' = r.st.log
           /\ pending' = r.pending
           /\ protocol' = r.protocol
           /\ uncaught' = (uncaught \/ r.st.threw)
    /\ UNCHANGED <<opts, target, relativePath, callState, respSeen, errSeen,
                   statusCode>>
    /\ UNCHANGED <<replaceVars, valueVars, stateVars, placeholderVars>>

\* The response callback: the error, if any, it completes with.
ClassifyResponse(code) ==
    IF ~(code > 199 /\ code < 300) THEN RespErr("NoSuccess", code)
    ELSE IF code > 399 /\ code < 500 THEN RespErr("ClientError", code)
    ELSE IF code > 499 /\ code < 600 THEN RespErr("ServerError", code)
    ELSE IF code > 599 THEN RespErr("Error", code)
    ELSE NoError

Response ==
    /\ pending = "http"
    /\ ~respSeen
    /\ ~errSeen
    /\ \E code \in StatusCodes :
         LET st1 == Completed(Frame(completions, log), ClassifyResponse(code)) IN
           /\ completions' = st1.completions
           /\ log' = st1.log
           /\ uncaught' = (uncaught \/ st1.threw)
           /\ statusCode' = code
    /\ respSeen' = TRUE
    /\ UNCHANGED <<opts, target, relativePath, callState, pending, protocol,
                   errSeen>>
    /\ UNCHANGED <<replaceVars, valueVars, stateVars, placeholderVars>>

\* req.once('error', ...): the socket fails, before or after the response.
TransportError ==
    /\ pending = "http"
    /\ ~errSeen
    /\ LET st1 == Completed(Frame(completions, log), Err("Transport")) IN
         /\ completions' = st1.completions
         /\ log' = st1.log
         /\ uncaught' = (uncaught \/ st1.threw)
    /\ errSeen' = TRUE
    /\ UNCHANGED <<opts, target, relativePath, callState, pending, protocol,
                   respSeen, statusCode>>
    /\ UNCHANGED <<replaceVars, valueVars, stateVars, placeholderVars>>

----------------------------------------------------------------------------
(* deploy_helpers: string helpers used by values.ts *)

\* String.prototype.toLowerCase on the letters the model uses.
LowerCase(c) ==
    CASE c = "A" -> "a"
      [] c = "B" -> "b"
      [] c = "C" -> "c"
      [] c = "D" -> "d"
      [] c = "E" -> "e"
      [] c = "F" -> "f"
      [] c = "G" -> "g"
      [] c = "H" -> "h"
      [] c = "I" -> "i"
      [] c = "J" -> "j"
      [] c = "K" -> "k"
      [] c = "L" -> "l"
      [] c = "M" -> "m"
      [] c = "N" -> "n"
      [] c = "O" -> "o"
      [] c = "P" -> "p"
      [] c = "Q" -> "q"
      [] c = "R" -> "r"
      [] c = "S" -> "s"
      [] c = "T" -> "t"
      [] c = "U" -> "u"
      [] c = "V" -> "v"
      [] c = "W" -> "w"
      [] c = "X" -> "x"
      [] c = "Y" -> "y"
      [] c = "Z" -> "z"
      [] OTHER -> c

ToLowerCase(s) == [i \in 1..Len(s) |-> LowerCase(s[i])]

RECURSIVE TrimStart(_)
TrimStart(s) ==
    IF s # <<>> /\ Head(s) = " " THEN TrimStart(Tail(s)) ELSE s

RECURSIVE TrimEnd(_)
TrimEnd(s) ==
    IF s # <<>> /\ s[Len(s)] = " " THEN TrimEnd(SubSeq(s, 1, Len(s) - 1)) ELSE s

Trim(s) == TrimEnd(TrimStart(s))

\* deploy_helpers.normalizeString: lower case, trimmed.
NormalizeString(s) == Trim(ToLowerCase(s))

----------------------------------------------------------------------------
(* replaceWithValues *)

MaxValues == 3

MaxPieces == 2

\* A Value as replaceWithValues sees it: its name and what its `value`
\* accessor does (throws, or returns text; toStringSafe gives '' for
\* undefined). `nil` is a falsy entry of the list.
Val(name, throws, text) ==
    [nil |-> FALSE, name |-> name, throws |-> throws, value |-> text]

NilValue == [nil |-> TRUE, name |-> <<>>, throws |-> FALSE, value |-> <<>>]

ValuePool ==
    { Val(<<"a">>, FALSE, <<"x">>),
      Val(<<" ", "A">>, FALSE, <<"y">>),
      Val(<<"a">>, TRUE, <<>>),
      Val(<<"a">>, FALSE, <<"$", "{", "b", "}">>),
      Val(<<"b">>, FALSE, <<"z">>),
      Val(<<"b">>, FALSE, <<>>),
      NilValue }

Pieces ==
    { <<"$", "{", "a", "}">>,
      <<"$", "{", " ", "A", " ", "}">>,
      <<"$", "{", "b", "}">>,
      <<"$">>,
      <<"{", "b", "}">> }

SeqsUpTo(S, n) == UNION { [1..k -> S] : k \in 0..n }

RECURSIVE Concat(_)
Concat(ss) == IF ss = <<>> THEN <<>> ELSE Head(ss) \o Concat(Tail(ss))

InputStrings == { Concat(ps) : ps \in SeqsUpTo(Pieces, MaxPieces) }

\* Position of the first "}" of s at or after j, 0 when there is none.
RECURSIVE FindClose(_, _)
FindClose(s, j) ==
    IF j > Len(s) THEN 0
    ELSE IF s[j] = "}" THEN j
    ELSE FindClose(s, j + 1)

\* The replacer callback of str.replace: the text that takes the place of
\* `match`, and whether an exception leaves the callback.
NewValueNoCatch(v, match, varName) ==
    IF NormalizeString(varName) = NormalizeString(v.name)
    THEN IF v.throws
         THEN [threw |-> TRUE, text |-> <<>>]
         ELSE [threw |-> FALSE, text |-> v.value]
    ELSE [threw |-> FALSE, text |-> match]

NewValue(v, match, varName) ==
    IF NormalizeString(varName) = NormalizeString(v.name)
    THEN IF v.throws
         THEN [threw |-> FALSE, text |-> match]      \* catch (e) { }
         ELSE [threw |-> FALSE, text |-> v.value]
    ELSE [threw |-> FALSE, text |-> match]

\* str.replace(/(\$)(\{)([^\}]*)(\})/gm, callback) from position i on.
RECURSIVE ReplaceFirstOnly(_, _, _)
ReplaceFirstOnly(s, i, v) ==
    IF i > Len(s) THEN [threw |-> FALSE, str |-> <<>>]
    ELSE IF s[i] = "$" /\ i < Len(s) /\ s[i + 1] = "{" /\ FindClose(s, i + 2) # 0
    THEN LET j  == FindClose(s, i + 2)
             nv == NewValue(v, SubSeq(s, i, j), SubSeq(s, i + 2, j - 1))
         IN  [threw |-> nv.threw, str |-> nv.text \o SubSeq(s, j + 1, Len(s))]
    ELSE LET rest == ReplaceFirstOnly(s, i + 1, v)
         IN  [threw |-> rest.threw, str |-> <<s[i]>> \o rest.str]

RECURSIVE ReplaceFrom(_, _, _)
ReplaceFrom(s, i, v) ==
    IF i > Len(s) THEN [threw |-> FALSE, str |-> <<>>]
    ELSE IF s[i] = "$" /\ i < Len(s) /\ s[i + 1] = "{" /\ FindClose(s, i + 2) # 0
    THEN LET j    == FindClose(s, i + 2)
             nv   == NewValue(v, SubSeq(s, i, j), SubSeq(s, i + 2, j - 1))
             rest == ReplaceFrom(s, j + 1, v)
         IN  [threw |-> nv.threw \/ rest.threw, str |-> nv.text \o rest.str]
    ELSE LET rest == ReplaceFrom(s, i + 1, v)
         IN  [threw |-> rest.threw, str |-> <<s[i]>> \o rest.str]

\* allValues.forEach(v => { str = str.replace(...) }) from the k-th Value on.
RECURSIVE ForEachValueReversed(_, _, _)
ForEachValueReversed(allValues, k, str) ==
    IF k > Len(allValues) THEN [threw |-> FALSE, str |-> str]
    ELSE LET r == ReplaceFrom(str, 1, allValues[Len(allValues) + 1 - k]) IN
         IF r.threw THEN r
         ELSE ForEachValueReversed(allValues, k + 1, r.str)

RECURSIVE ForEachValue(_, _, _)
ForEachValue(allValues, k, str) ==
    IF k > Len(allValues) THEN [threw |-> FALSE, str |-> str]
    ELSE LET r == ReplaceFrom(str, 1, allValues[k]) IN
         IF r.threw THEN r
         ELSE ForEachValue(allValues, k + 1, r.str)

\* .filter(x => x)
FilterTruthy(values) == SelectSeq(values, LAMBDA v : ~v.nil)

ReplaceWithValues(values, val) ==
    IF val.isNull
    THEN [done |-> TRUE, threw |-> FALSE, isNull |-> TRUE, str |-> <<>>]
    ELSE LET r == ForEachValue(FilterTruthy(values), 1, val.str) IN
         [done |-> TRUE, threw |-> r.threw, isNull |-> FALSE, str |-> r.str]

CallReplaceWithValues ==
    /\ ~rvResult.done
    /\ rvResult' = ReplaceWithValues(rvValues, rvVal)
    /\ UNCHANGED <<rvValues, rvVal>>
    /\ UNCHANGED <<deployVars, valueVars, stateVars, placeholderVars>>

----------------------------------------------------------------------------
(* toValueObjects, ValueBase.otherValues, getValues *)

MaxItems == 3

\* A configured entry of `values`: falsy, or a definition with its type
\* tag, name, isFor list and whether filterPlatformItems keeps it.
Item(type, name, isFor, platformOk) ==
    [falsy |-> FALSE, type |-> type, name |-> name, isFor |-> isFor,
     platformOk |-> platformOk]

FalsyItem ==
    [falsy |-> TRUE, type |-> <<>>, name |-> <<>>, isFor |-> <<>>,
     platformOk |-> TRUE]

ItemPool ==
    { FalsyItem,
      Item(<<>>, <<"a">>, <<>>, TRUE),
      Item(<<"s", "t", "a", "t", "i", "c">>, <<"b">>, <<<<" ", "A">>>>, TRUE),
      Item(<<" ", "C", "o", "d", "e">>, <<"c">>, <<<<>>, <<" ">>>>, TRUE),
      Item(<<"e", "n", "v">>, <<"e">>, <<<<"b">>>>, TRUE),
      Item(<<"e", "n", "v", "i", "r", "o", "n", "m", "e", "n", "t">>, <<"e">>,
           <<>>, FALSE),
      Item(<<"f", "i", "l", "e">>, <<"f">>, <<<<"a">>, <<"b">>>>, TRUE),
      Item(<<"S", "C", "R", "I", "P", "T">>, <<"s">>, <<>>, TRUE),
      Item(<<"f", "t", "p">>, <<"a">>, <<>>, TRUE) }

HostNames == { <<"a">>, <<"b">> }

KindOfRaw(type) ==
    CASE type = <<>> -> "static"
      [] type = <<"s", "t", "a", "t", "i", "c">> -> "static"
      [] type = <<"c", "o", "d", "e">> -> "code"
      [] type = <<"e", "n", "v">> -> "env"
      [] type = <<"e", "n", "v", "i", "r", "o", "n", "m", "e", "n", "t">> -> "env"
      [] type = <<"f", "i", "l", "e">> -> "file"
      [] type = <<"s", "c", "r", "i", "p", "t">> -> "script"
      [] OTHER -> "none"

\* switch (deploy_helpers.normalizeString(i.type)): the class constructed,
\* "none" when no case matches.
KindOf(type) ==
    LET t == NormalizeString(type) IN
    CASE t = <<>> -> "static"
      [] t = <<"s", "t", "a", "t", "i", "c">> -> "static"
      [] t = <<"c", "o", "d", "e">> -> "code"
      [] t = <<"e", "n", "v">> -> "env"
      [] t = <<"e", "n", "v", "i", "r", "o", "n", "m", "e", "n", "t">> -> "env"
      [] t = <<"f", "i", "l", "e">> -> "file"
      [] t = <<"s", "c", "r", "i", "p", "t">> -> "script"
      [] OTHER -> "none"

\* A Value object: `id`, its class, its name and whether an
\* otherValueProvider was assigned. An id that was never assigned
\* (undefined) is -1.
ValueObject(id, kind, name, provider) ==
    [id |-> id, kind |-> kind, name |-> name, provider |-> provider]

\* The forEach of toValueObjects from the k-th truthy item on; idx = k - 1.
RECURSIVE ConvertFrom(_, _, _)
ConvertFrom(items, k, result) ==
    IF k > Len(items) THEN result
    ELSE LET kind == KindOf(items[k].type) IN
         IF kind = "none"
         THEN ConvertFrom(items, k + 1, result)
         ELSE ConvertFrom(items, k + 1,
                  Append(result, ValueObject(k - 1, kind, items[k].name, TRUE)))

ToValueObjects(items) ==
    ConvertFrom(SelectSeq(items, LAMBDA i : ~i.falsy), 1, <<>>)

\* newValue.otherValueProvider: () => result.filter(x => x.id !== newValue.id),
\* `result` being the array toValueObjects returned, as it is when read.
OtherValueProviderEager(v, result) ==
    LET before == SelectSeq(result, LAMBDA x : x.id >= 0 /\ x.id < v.id) IN
    SelectSeq(before, LAMBDA x : x.id # v.id)

OtherValueProvider(v, result) ==
    SelectSeq(result, LAMBDA x : x.id # v.id)

\* ValueBase.otherValues
OtherValues(v, result) ==
    IF v.provider THEN OtherValueProvider(v, result) ELSE <<>>

\* deploy_helpers.filterPlatformItems: an order-preserving subset.
FilterPlatformItems(items) == SelectSeq(items, LAMBDA i : i.platformOk)

IsForHostRaw(v, name) ==
    LET validHosts == SelectSeq(v.isFor, LAMBDA x : x # <<>>)
    IN  \/ Len(validHosts) < 1
        \/ \E i \in 1..Len(validHosts) : validHosts[i] = name

\* The isFor filter of getValues.
IsForHost(v, name) ==
    LET hosts      == [i \in 1..Len(v.isFor) |-> NormalizeString(v.isFor[i])]
        validHosts == SelectSeq(hosts, LAMBDA x : x # <<>>)
    IN  \/ Len(validHosts) < 1
        \/ \E i \in 1..Len(validHosts) : validHosts[i] = name

BuiltInValues ==
    << ValueObject(-1, "code", <<"c", "w", "d">>, FALSE),
       ValueObject(-1, "code", <<"h", "o", "m", "e", "D", "i", "r">>, FALSE),
       ValueObject(-1, "code",
                   <<"w", "o", "r", "k", "s", "p", "a", "c", "e", "R", "o", "o", "t">>,
                   FALSE) >>

GetValues(name, values) ==
    LET truthy   == SelectSeq(values, LAMBDA x : ~x.falsy)
        forMe    == SelectSeq(truthy, LAMBDA v : IsForHost(v, name))
        platform == FilterPlatformItems(forMe)
    IN  ToValueObjects(platform) \o BuiltInValues

CallToValueObjects ==
    /\ objs' = ToValueObjects(cfgValues)
    /\ lastCall' = "toValueObjects"
    /\ UNCHANGED <<cfgValues, myName>>
    /\ UNCHANGED <<deployVars, replaceVars, stateVars, placeholderVars>>

CallGetValues ==
    /\ objs' = GetValues(myName, cfgValues)
    /\ lastCall' = "getValues"
    /\ UNCHANGED <<cfgValues, myName>>
    /\ UNCHANGED <<deployVars, replaceVars, stateVars, placeholderVars>>

NextValues ==
    \/ CallToValueObjects
    \/ CallGetValues

----------------------------------------------------------------------------
(* globalScriptValueState, scriptValueStates, resetScriptStates *)

ScriptPaths == {"/ws/one.js", "/ws/two.js"}

GlobalKeys == {"counter"}

StateValues == {"v1", "v2"}

\* A bag: undefined (declared, never assigned), or an object holding, for
\* each key, a value or nothing ("undefined").
UndefinedBag(keys) == [defined |-> FALSE, entries |-> [k \in keys |-> "undefined"]]

EmptyBag(keys) == [defined |-> TRUE, entries |-> [k \in keys |-> "undefined"]]

HasEntries(bag) == \E k \in DOMAIN bag.entries : bag.entries[k] # "undefined"

\* bag[key]: a TypeError when the bag itself is undefined.
ReadBag(bag, key) == IF bag.defined THEN bag.entries[key] ELSE "TypeError"

\* bag[key] = value
WriteBag(bag, key, value) ==
    IF bag.defined THEN [bag EXCEPT !.entries[key] = value] ELSE bag

\* resetScriptStates: the two bags after it.
ResetGlobalOnly ==
    [global |-> EmptyBag(GlobalKeys), states |-> scriptValueStates]

ResetScriptStatesResult ==
    [global |-> EmptyBag(GlobalKeys), states |-> EmptyBag(ScriptPaths)]

ResetScriptStates ==
    /\ globalScriptValueState' = ResetScriptStatesResult.global
    /\ scriptValueStates' = ResetScriptStatesResult.states
    /\ lastOp' = [op |-> "reset", key |-> "",
                  saw |-> IF HasEntries(scriptValueStates)
                             /\ HasEntries(globalScriptValueState)
                          THEN "dirty" ELSE "clean"]
    /\ writtenSinceReset' = {}
    /\ UNCHANGED <<deployVars, replaceVars, valueVars, placeholderVars>>

\* ScriptValue.value with a getValue that reads args.state.
ScriptReadsState ==
    /\ \E script \in ScriptPaths :
         lastOp' = [op |-> "readState", key |-> script,
                    saw |-> ReadBag(scriptValueStates, script)]
    /\ UNCHANGED <<globalScriptValueState, scriptValueStates, writtenSinceReset>>
    /\ UNCHANGED <<deployVars, replaceVars, valueVars, placeholderVars>>

\* ScriptValue.value with a getValue that assigns args.state.
ScriptWritesState ==
    /\ \E script \in ScriptPaths, newValue \in StateValues :
         /\ scriptValueStates' = WriteBag(scriptValueStates, script, newValue)
         /\ lastOp' = [op |-> "writeState", key |-> script,
                       saw |-> IF scriptValueStates.defined THEN "undefined"
                               ELSE "TypeError"]
         /\ writtenSinceReset' = IF scriptValueStates.defined
                                 THEN writtenSinceReset \cup {script}
                                 ELSE writtenSinceReset
    /\ UNCHANGED globalScriptValueState
    /\ UNCHANGED <<deployVars, replaceVars, valueVars, placeholderVars>>

\* A Script value (args.globalState) or a Code value ($globalState)
\* reading a property of the global bag.
ReadsGlobalState ==
    /\ \E k \in GlobalKeys :
         lastOp' = [op |-> "readGlobal", key |-> k,
                    saw |-> ReadBag(globalScriptValueState, k)]
    /\ UNCHANGED <<globalScriptValueState, scriptValueStates, writtenSinceReset>>
    /\ UNCHANGED <<deployVars, replaceVars, valueVars, placeholderVars>>

\* ... or assigning one.
WritesGlobalState ==
    /\ \E k \in GlobalKeys, newValue \in StateValues :
         /\ globalScriptValueState' = WriteBag(globalScriptValueState, k, newValue)
         /\ lastOp' = [op |-> "writeGlobal", key |-> k,
                       saw |-> IF globalScriptValueState.defined THEN "undefined"
                               ELSE "TypeError"]
    /\ UNCHANGED <<scriptValueStates, writtenSinceReset>>
    /\ UNCHANGED <<deployVars, replaceVars, valueVars, placeholderVars>>

NextStates ==
    \/ ResetScriptStates
    \/ ScriptReadsState
    \/ ScriptWritesState
    \/ ReadsGlobalState
    \/ WritesGlobalState

----------------------------------------------------------------------------
(* HttpPlugin.deployFile: parsePlaceHolders *)

MaxTokens == 2

\* The names of the seven regular expressions, in the order of the seven
\* replace calls, each with the field of the file information it inserts.
PlaceHolders ==
    << [field |-> "date",
        name |-> <<"v", "s", "d", "e", "p", "l", "o", "y", "-", "d", "a", "t", "e">>],
       [field |-> "file",
        name |-> <<"v", "s", "d", "e", "p", "l", "o", "y", "-", "f", "i", "l", "e">>],
       [field |-> "mime",
        name |-> <<"v", "s", "d", "e", "p", "l", "o", "y", "-", "f", "i", "l", "e", "-", "m", "i", "m", "e">>],
       [field |-> "name",
        name |-> <<"v", "s", "d", "e", "p", "l", "o", "y", "-", "f", "i", "l", "e", "-", "n", "a", "m", "e">>],
       [field |-> "size",
        name |-> <<"v", "s", "d", "e", "p", "l", "o", "y", "-", "f", "i", "l", "e", "-", "s", "i", "z", "e">>],
       [field |-> "changed",
        name |-> <<"v", "s", "d", "e", "p", "l", "o", "y", "-", "f", "i", "l", "e", "-", "t", "i", "m", "e", "-", "c", "h", "a", "n", "g", "e", "d">>],
       [field |-> "created",
        name |-> <<"v", "s", "d", "e", "p", "l", "o", "y", "-", "f", "i", "l", "e", "-", "t", "i", "m", "e", "-", "c", "r", "e", "a", "t", "e", "d">>] >>

\* `${` name `}`
Token(name) == <<"$", "{">> \o name \o <<"}">>

UpperCase(c) ==
    CASE c = "v" -> "V" [] c = "s" -> "S" [] c = "d" -> "D" [] c = "e" -> "E"
      [] c = "p" -> "P" [] c = "l" -> "L" [] c = "o" -> "O" [] c = "y" -> "Y"
      [] c = "f" -> "F" [] c = "i" -> "I" [] c = "n" -> "N" [] c = "a" -> "A"
      [] c = "m" -> "M"
      [] OTHER -> c

\* The texts a URL or a header value is made of.
TokenPieces ==
    { Token(PlaceHolders[k].name) : k \in 1..Len(PlaceHolders) }
    \cup { Token([i \in 1..Len(PlaceHolders[4].name) |->
                     UpperCase(PlaceHolders[4].name[i])]),
           <<"/">> }

TokenStrings == { Concat(ps) : ps \in SeqsUpTo(TokenPieces, MaxTokens) }

FileNames == { <<"a", " ", "b">>, <<"$", "&">> }

\* What the seven calls insert for a file of base name `name`: the date
\* of the call, relativePath, contentType, Path.basename(file),
\* data.length and the two time stamps.
FileInfo(name) ==
    [date    |-> <<"S", "u", "n", ",", " ", "1">>,
     file    |-> <<"d", "/">> \o name,
     mime    |-> <<"t", "/", "p">>,
     name    |-> name,
     size    |-> <<"7">>,
     changed |-> <<"M", "o", "n", ",", " ", "2">>,
     created |-> <<"T", "u", "e", ",", " ", "3">>]

\* encodeURIComponent: letters, digits and - _ . ! ~ * ' ( ) stay, every
\* other character becomes its %XX escape.
EncodeChar(c) ==
    CASE c = " " -> <<"%", "2", "0">>
      [] c = "$" -> <<"%", "2", "4">>
      [] c = "&" -> <<"%", "2", "6">>
      [] c = "," -> <<"%", "2", "C">>
      [] c = "/" -> <<"%", "2", "F">>
      [] c = "{" -> <<"%", "7", "B">>
      [] c = "}" -> <<"%", "7", "D">>
      [] OTHER -> <<c>>

RECURSIVE EncodeURIComponent(_)
EncodeURIComponent(str) ==
    IF str = <<>> THEN <<>>
    ELSE EncodeChar(Head(str)) \o EncodeURIComponent(Tail(str))

\* The transformer of a call: the given one, or toStringSafe.
Transform(encode, value) == IF encode THEN EncodeURIComponent(value) ELSE value

\* The text a replacement string stands for in String.prototype.replace:
\* $$ is a dollar sign, $& the match, $` and $' the text before and after
\* it, $1..$4 the four groups of the expression. (Of the two-digit forms
\* none occurs in the values used here.)
RECURSIVE Expand(_, _, _, _)
Expand(repl, before, match, after) ==
    IF repl = <<>> THEN <<>>
    ELSE IF Head(repl) = "$" /\ Len(repl) >= 2 /\
            repl[2] \in {"$", "&", "`", "'", "1", "2", "3", "4"}
    THEN (CASE repl[2] = "$" -> <<"$">>
            [] repl[2] = "&" -> match
            [] repl[2] = "`" -> before
            [] repl[2] = "'" -> after
            [] repl[2] = "1" -> <<"$">>
            [] repl[2] = "2" -> <<"{">>
            [] repl[2] = "3" -> SubSeq(match, 3, Len(match) - 1)
            [] repl[2] = "4" -> <<"}">>)
         \o Expand(Tail(Tail(repl)), before, match, after)
    ELSE <<Head(repl)>> \o Expand(Tail(repl), before, match, after)

\* Whether /(\$)(\{)(name)(\})/i matches str at index i.
MatchesAt(str, i, name) ==
    LET n == Len(name) + 3 IN
    /\ i + n - 1 <= Len(str)
    /\ str[i] = "$" /\ str[i + 1] = "{" /\ str[i + n - 1] = "}"
    /\ ToLowerCase(SubSeq(str, i + 2, i + n - 2)) = ToLowerCase(name)

\* str.replace(/(\$)(\{)(name)(\})/i, repl): the expression has no g
\* flag, so the leftmost match alone is replaced.
StrReplace(str, name, repl) ==
    LET hits == { i \in 1..Len(str) : MatchesAt(str, i, name) } IN
    IF hits = {} THEN str
    ELSE LET i      == CHOOSE h \in hits : \A g \in hits : h <= g
             n      == Len(name) + 3
             before == SubSeq(str, 1, i - 1)
             match  == SubSeq(str, i, i + n - 1)
             after  == SubSeq(str, i + n, Len(str))
         IN  before \o Expand(repl, before, match, after) \o after

\* The seven replace calls from the k-th on.
RECURSIVE ReplaceCalls(_, _, _, _)
ReplaceCalls(str, k, info, encode) ==
    IF k > Len(PlaceHolders) THEN str
    ELSE ReplaceCalls(StrReplace(str, PlaceHolders[k].name,
                                 Transform(encode, info[PlaceHolders[k].field])),
                      k + 1, info, encode)

ParsePlaceHolders(str, info, encode) == ReplaceCalls(str, 1, info, encode)

\* let targetUrl = URL.parse(parsePlaceHolders(url, encodeURIComponent))
ParseTargetUrl ==
    /\ phStep = "read"
    /\ targetUrl' = ParsePlaceHolders(phUrl, FileInfo(phName), TRUE)
    /\ phStep' = "url"
    /\ UNCHANGED <<phUrl, phHeader, phName, headersToSubmit>>
    /\ UNCHANGED <<deployVars, replaceVars, valueVars, stateVars>>

\* headersToSubmit[p] = parsePlaceHolders(headers[p]), after which the
\* request is made.
ParseHeaders ==
    /\ phStep = "url"
    /\ headersToSubmit' = ParsePlaceHolders(phHeader, FileInfo(phName), FALSE)
    /\ phStep' = "dispatched"
    /\ UNCHANGED <<phUrl, phHeader, phName, targetUrl>>
    /\ UNCHANGED <<deployVars, replaceVars, valueVars, stateVars>>

NextPlaceholders ==
    \/ ParseTargetUrl
    \/ ParseHeaders

----------------------------------------------------------------------------
(* Specifications *)

NoOptions ==
    [onCompleted |-> FALSE, onCompletedThrows |-> FALSE,
     onBeforeDeploy |-> FALSE, onBeforeDeployThrows |-> FALSE]

NoResult == [done |-> FALSE, threw |-> FALSE, isNull |-> FALSE, str |-> <<>>]

NullVal == [isNull |-> TRUE, str |-> <<>>]

NoOp == [op |-> "none", key |-> "", saw |-> ""]

InitDeploy ==
    /\ opts \in OptionSets
    /\ target \in Targets
    /\ relativePath \in {"ok", "false"}
    /\ callState = "notCalled"
    /\ pending = "none"
    /\ protocol = "unset"
    /\ respSeen = FALSE
    /\ errSeen = FALSE
    /\ statusCode = 0
    /\ completions = <<>>
    /\ log = <<>>
    /\ uncaught = FALSE
    /\ rvValues = <<>>
    /\ rvVal = NullVal
    /\ rvResult = NoResult
    /\ cfgValues = <<>>
    /\ myName = <<"a">>
    /\ objs = <<>>
    /\ lastCall = "none"
    /\ globalScriptValueState = UndefinedBag(GlobalKeys)
    /\ scriptValueStates = UndefinedBag(ScriptPaths)
    /\ lastOp = NoOp
    /\ writtenSinceReset = {}
    /\ phUrl = <<>>
    /\ phHeader = <<>>
    /\ phName = <<>>
    /\ targetUrl = <<>>
    /\ headersToSubmit = <<>>
    /\ phStep = "read"

NextDeploy ==
    \/ DeployFile
    \/ LstatCallback
    \/ ReadFileCallback
    \/ Response
    \/ TransportError

SpecDeploy == InitDeploy /\ [][NextDeploy]_vars

InitReplace ==
    /\ opts = NoOptions
    /\ target = [missing |-> FALSE, protocol |-> "null"]
    /\ relativePath = "ok"
    /\ callState = "notCalled"
    /\ pending = "none"
    /\ protocol = "unset"
    /\ respSeen = FALSE
    /\ errSeen = FALSE
    /\ statusCode = 0
    /\ completions = <<>>
    /\ log = <<>>
    /\ uncaught = FALSE
    /\ rvValues \in SeqsUpTo(ValuePool, MaxValues)
    /\ rvVal \in {NullVal} \cup [isNull : {FALSE}, str : InputStrings]
    /\ rvResult = NoResult
    /\ cfgValues = <<>>
    /\ myName = <<"a">>
    /\ objs = <<>>
    /\ lastCall = "none"
    /\ globalScriptValueState = UndefinedBag(GlobalKeys)
    /\ scriptValueStates = UndefinedBag(ScriptPaths)
    /\ lastOp = NoOp
    /\ writtenSinceReset = {}
    /\ phUrl = <<>>
    /\ phHeader = <<>>
    /\ phName = <<>>
    /\ targetUrl = <<>>
    /\ headersToSubmit = <<>>
    /\ phStep = "read"

NextReplace == CallReplaceWithValues

SpecReplace == InitReplace /\ [][NextReplace]_vars

InitValues ==
    /\ opts = NoOptions
    /\ target = [missing |-> FALSE, protocol |-> "null"]
    /\ relativePath = "ok"
    /\ callState = "notCalled"
    /\ pending = "none"
    /\ protocol = "unset"
    /\ respSeen = FALSE
    /\ errSeen = FALSE
    /\ statusCode = 0
    /\ completions = <<>>
    /\ log = <<>>
    /\ uncaught = FALSE
    /\ rvValues = <<>>
    /\ rvVal = NullVal
    /\ rvResult = NoResult
    /\ cfgValues \in SeqsUpTo(ItemPool, MaxItems)
    /\ myName \in HostNames
    /\ objs = <<>>
    /\ lastCall = "none"
    /\ globalScriptValueState = UndefinedBag(GlobalKeys)
    /\ scriptValueStates = UndefinedBag(ScriptPaths)
    /\ lastOp = NoOp
    /\ writtenSinceReset = {}
    /\ phUrl = <<>>
    /\ phHeader = <<>>
    /\ phName = <<>>
    /\ targetUrl = <<>>
    /\ headersToSubmit = <<>>
    /\ phStep = "read"

SpecValues == InitValues /\ [][NextValues]_vars

InitStates ==
    /\ opts = NoOptions
    /\ target = [missing |-> FALSE, protocol |-> "null"]
    /\ relativePath = "ok"
    /\ callState = "notCalled"
    /\ pending = "none"
    /\ protocol = "unset"
    /\ respSeen = FALSE
    /\ errSeen = FALSE
    /\ statusCode = 0
    /\ completions = <<>>
    /\ log = <<>>
    /\ uncaught = FALSE
    /\ rvValues = <<>>
    /\ rvVal = NullVal
    /\ rvResult = NoResult
    /\ cfgValues = <<>>
    /\ myName = <<"a">>
    /\ objs = <<>>
    /\ lastCall = "none"
    /\ globalScriptValueState = UndefinedBag(GlobalKeys)
    /\ scriptValueStates = UndefinedBag(ScriptPaths)
    /\ lastOp = NoOp
    /\ writtenSinceReset = {}
    /\ phUrl = <<>>
    /\ phHeader = <<>>
    /\ phName = <<>>
    /\ targetUrl = <<>>
    /\ headersToSubmit = <<>>
    /\ phStep = "read"

SpecStates == InitStates /\ [][NextStates]_vars

InitPlaceholders ==
    /\ opts = NoOptions
    /\ target = [missing |-> FALSE, protocol |-> "null"]
    /\ relativePath = "ok"
    /\ callState = "notCalled"
    /\ pending = "none"
    /\ protocol = "unset"
    /\ respSeen = FALSE
    /\ errSeen = FALSE
    /\ statusCode = 0
    /\ completions = <<>>
    /\ log = <<>>
    /\ uncaught = FALSE
    /\ rvValues = <<>>
    /\ rvVal = NullVal
    /\ rvResult = NoResult
    /\ cfgValues = <<>>
    /\ myName = <<"a">>
    /\ objs = <<>>
    /\ lastCall = "none"
    /\ globalScriptValueState = UndefinedBag(GlobalKeys)
    /\ scriptValueStates = UndefinedBag(ScriptPaths)
    /\ lastOp = NoOp
    /\ writtenSinceReset = {}
    /\ phUrl \in TokenStrings
    /\ phHeader \in TokenPieces \cup {phUrl}
    /\ phName \in FileNames
    /\ targetUrl = <<>>
    /\ headersToSubmit = <<>>
    /\ phStep = "read"

SpecPlaceholders == InitPlaceholders /\ [][NextPlaceholders]_vars

----------------------------------------------------------------------------
(* Properties of HttpPlugin.deployFile (SpecDeploy) *)

InLog(e) == \E i \in 1..Len(log) : log[i] = e

\* Nothing of the call is outstanding any more.
Quiescent ==
    /\ callState # "notCalled"
    /\ \/ pending = "none"
       \/ pending = "http" /\ (respSeen \/ errSeen)

\* C1: a call with a target and an onCompleted callback invokes onCompleted
\* at most once at any time, and exactly once when nothing of the call is
\* outstanding.
C1_CompletedExactlyOnce ==
    (opts.onCompleted /\ ~target.missing) =>
        /\ Len(completions) <= 1
        /\ Quiescent => Len(completions) = 1

\* C2: no exception leaves deployFile: the call returns normally for
\* every input.
C2_NeverThrows == callState # "threw"

\* The outcome the classification is meant to give for a status code.
ClaimedOutcome(code) ==
    IF code >= 200 /\ code <= 299 THEN NoError
    ELSE IF code >= 400 /\ code <= 499 THEN RespErr("ClientError", code)
    ELSE IF code >= 500 /\ code <= 599 THEN RespErr("ServerError", code)
    ELSE IF code >= 600 THEN RespErr("Error", code)
    ELSE RespErr("NoSuccess", code)

\* C3: the response callback completes with the outcome of the status
\* code's class: none for 2xx, 'Client error' for 4xx, 'Server error' for
\* 5xx, 'Error' from 600 on, 'No success' otherwise, with the code.
C3_Classification ==
    (respSeen /\ opts.onCompleted) =>
        \E i \in 1..Len(completions) : completions[i] = ClaimedOutcome(statusCode)

RequestSteps == {"request", "write", "end"}

IOSteps == {"lstat", "readFile"} \cup RequestSteps

Before(e, i) == \E j \in 1..(i - 1) : log[j] = e

\* C4: onBeforeDeploy (when supplied) precedes the start of the stat; the
\* read starts only after the stat completed without error; the request is
\* created, written and ended only after the read completed without
\* error; no stat, read or request step follows an onCompleted invocation.
C4_StepOrder ==
    \A i \in 1..Len(log) :
        /\ (log[i] = "lstat" /\ opts.onBeforeDeploy) => Before("onBeforeDeploy", i)
        /\ log[i] = "readFile" => Before("lstatDone", i)
        /\ log[i] \in RequestSteps => Before("readFileDone", i)
        /\ log[i] \in IOSteps => ~Before("onCompleted", i)

C4_Witness ==
    log = <<"onBeforeDeploy", "lstat", "lstatDone", "readFile", "readFileDone",
            "request", "write", "end", "onCompleted">>

\* C5: once the protocol is resolved (null counting as 'http:') and is
\* neither 'http:' nor 'https:', the first completion carries the 'not
\* supported' error and no request was created, written or is awaited.
C5_UnsupportedProtocol ==
    /\ (protocol # "unset" /\ target.protocol = "null") => protocol = "http:"
    /\ protocol \notin {"unset", "http:", "https:"} =>
          /\ ~InLog("request") /\ ~InLog("write") /\ ~InLog("end")
          /\ pending = "none"
          /\ opts.onCompleted =>
                (completions # <<>> /\ completions[1] = Err("NotSupported"))

C5_Witness ==
    /\ protocol = "ftp:"
    /\ completions = <<Err("NotSupported")>>
    /\ InLog("readFileDone")

----------------------------------------------------------------------------
(* Properties of replaceWithValues (SpecReplace) *)

Truthy(vs) == { k \in 1..Len(vs) : ~vs[k].nil }

\* The Values of vs that answer for the normalized name n.
Candidates(vs, n) ==
    { k \in Truthy(vs) : ~vs[k].throws /\ NormalizeString(vs[k].name) = n }

Least(S) == CHOOSE k \in S : \A m \in S : k <= m

Greatest(S) == CHOOSE k \in S : \A m \in S : k >= m

\* One scan of the input in which every token is replaced by the value of
\* the first (later = FALSE) or the last (later = TRUE) Value answering
\* for its name, and is left as it is when there is none.
RECURSIVE Expected(_, _, _, _)
Expected(s, i, vs, later) ==
    IF i > Len(s) THEN <<>>
    ELSE IF s[i] = "$" /\ i < Len(s) /\ s[i + 1] = "{" /\ FindClose(s, i + 2) # 0
    THEN LET j == FindClose(s, i + 2)
             c == Candidates(vs, NormalizeString(SubSeq(s, i + 2, j - 1)))
             t == IF c = {} THEN SubSeq(s, i, j)
                  ELSE IF later THEN vs[Greatest(c)].value
                  ELSE vs[Least(c)].value
         IN  t \o Expected(s, j + 1, vs, later)
    ELSE <<s[i]>> \o Expected(s, i + 1, vs, later)

\* No text a Value returns can become (part of) a token again.
PlainText(t) ==
    /\ t # <<>>
    /\ \A k \in 1..Len(t) : t[k] \notin {"$", "{", "}"}

PlainValues(vs) == \A k \in Truthy(vs) : ~vs[k].throws => PlainText(vs[k].value)

\* Two Values of the list share a normalized name and neither throws.
SharedName(vs) ==
    \E i, j \in Truthy(vs) :
        /\ i < j
        /\ ~vs[i].throws /\ ~vs[j].throws
        /\ NormalizeString(vs[i].name) = NormalizeString(vs[j].name)

Called == rvResult.done /\ ~rvVal.isNull

\* C6 as stated: with two Values of one name, neither throwing, every
\* token of that name ends up replaced by the value of the later one.
C6_LaterWins ==
    (Called /\ SharedName(rvValues) /\ PlainValues(rvValues)) =>
        rvResult.str = Expected(rvVal.str, 1, rvValues, TRUE)

\* C6 amended: with two Values of one name, neither throwing, every token
\* of that name ends up replaced by the value of the EARLIER one (values
\* being non-empty text without '$', '{', '}').
C6_EarlierWins ==
    (Called /\ SharedName(rvValues) /\ PlainValues(rvValues)) =>
        rvResult.str = Expected(rvVal.str, 1, rvValues, FALSE)

C6_Witness ==
    /\ rvResult.done
    /\ rvValues = <<Val(<<"a">>, FALSE, <<"x">>), Val(<<" ", "A">>, FALSE, <<"y">>)>>
    /\ rvVal = [isNull |-> FALSE, str |-> <<"$", "{", "a", "}", "$", "{", " ", "A", " ", "}">>]
    /\ rvResult.str = <<"x", "x">>

Throwing(vs) == { k \in Truthy(vs) : vs[k].throws }

\* C7: with a throwing accessor anywhere in the list, the call does not
\* fail, its result is that of the list without the throwing Values, and
\* (values being plain text) every token is replaced by the value of the
\* Value answering for its name and left as it is when only a throwing
\* Value bears its name.
C7_ThrowingAccessor ==
    (Called /\ Throwing(rvValues) # {}) =>
        /\ ~rvResult.threw
        /\ rvResult.str =
              ForEachValue(SelectSeq(rvValues, LAMBDA v : ~v.nil /\ ~v.throws),
                           1, rvVal.str).str
        /\ PlainValues(rvValues) =>
              rvResult.str = Expected(rvVal.str, 1, rvValues, FALSE)

C7_Witness ==
    /\ rvResult.done
    /\ rvValues = <<Val(<<"a">>, TRUE, <<>>), Val(<<"b">>, FALSE, <<"z">>)>>
    /\ rvVal = [isNull |-> FALSE, str |-> <<"$", "{", "a", "}", "$", "{", "b", "}">>]
    /\ rvResult.str = <<"$", "{", "a", "}", "z">>

\* A Value named a whose text is a token naming b, and a Value named b.
ValueA == Val(<<"a">>, FALSE, <<"$", "{", "b", "}">>)

ValueB == Val(<<"b">>, FALSE, <<"z">>)

\* What ValueA amounts to once its text has been substituted by ValueB.
ValueAResolved == Val(<<"a">>, FALSE, ValueB.value)

\* C15: the Values are applied one after another to the running string:
\* with ValueA ahead of ValueB the `${b}` that ValueA inserts is replaced
\* by b's value, with ValueB ahead of ValueA it stays in the output; on
\* some inputs the two orders give different results.
C15_OrderDependence ==
    Called =>
        /\ FilterTruthy(rvValues) = <<ValueA, ValueB>> =>
              rvResult.str = Expected(rvVal.str, 1, <<ValueAResolved, ValueB>>, FALSE)
        /\ FilterTruthy(rvValues) = <<ValueB, ValueA>> =>
              /\ rvResult.str = Expected(rvVal.str, 1, <<ValueA, ValueB>>, FALSE)
              /\ rvVal.str = <<"$", "{", "a", "}">> =>
                    /\ rvResult.str = ValueA.value
                    /\ rvResult.str #
                          ReplaceWithValues(<<ValueA, ValueB>>, rvVal).str

C15_Witness ==
    /\ rvResult.done
    /\ rvValues = <<ValueB, ValueA>>
    /\ rvVal = [isNull |-> FALSE, str |-> <<"$", "{", "a", "}">>]
    /\ rvResult.str = <<"$", "{", "b", "}">>

----------------------------------------------------------------------------
(* Properties of toValueObjects and getValues (SpecValues) *)

RemoveAt(s, i) == SubSeq(s, 1, i - 1) \o SubSeq(s, i + 1, Len(s))

Members(s) == { s[k] : k \in 1..Len(s) }

\* C8: a Value made by toValueObjects never has itself among its
\* otherValues and has every other member of the array, whenever read.
C8_SiblingVisibility ==
    \A i \in 1..Len(objs) :
        objs[i].provider =>
            /\ objs[i] \notin Members(OtherValues(objs[i], objs))
            /\ \A j \in 1..Len(objs) :
                  j # i => objs[j] \in Members(OtherValues(objs[i], objs))

\* Two Values around a skipped entry.
C8_Witness ==
    /\ lastCall = "toValueObjects"
    /\ Len(objs) = 2
    /\ objs[1].id = 0
    /\ objs[2].id = 2
    /\ OtherValues(objs[1], objs) = <<objs[2]>>

\* C9: every Value of the list getValues returned, built-in or
\* configured, has exactly the other Values of the list as otherValues.
C9_AllSiblings ==
    lastCall = "getValues" =>
        \A i \in 1..Len(objs) : OtherValues(objs[i], objs) = RemoveAt(objs, i)

----------------------------------------------------------------------------
(* Properties of the script states (SpecStates) *)

\* C10: right after resetScriptStates both bags are empty objects, and
\* from then on a Script value reading `state` at a path sees undefined
\* until an evaluation at that path has assigned it.
C10_ResetClears ==
    /\ lastOp.op = "reset" =>
          /\ globalScriptValueState = EmptyBag(GlobalKeys)
          /\ scriptValueStates = EmptyBag(ScriptPaths)
    /\ scriptValueStates.defined =>
          \A p \in ScriptPaths \ writtenSinceReset :
              ReadBag(scriptValueStates, p) = "undefined"
    /\ (lastOp.op = "readState" /\ scriptValueStates.defined
          /\ lastOp.key \notin writtenSinceReset) => lastOp.saw = "undefined"

\* A reset of bags that both held entries.
C10_Witness ==
    /\ lastOp = [op |-> "reset", key |-> "", saw |-> "dirty"]
    /\ ~HasEntries(globalScriptValueState)
    /\ ~HasEntries(scriptValueStates)

\* C14: both bags are there from process start, so that no Script value
\* reading or assigning `state` and no Code or Script value reading the
\* global bag fails for lack of a store, also when resetScriptStates has
\* never been called; and what was assigned to `state` at a path is still
\* there at every later read at that path until the next reset.
C14_StoresFromStart ==
    /\ lastOp.op \in {"readState", "writeState", "readGlobal", "writeGlobal"}
          => lastOp.saw # "TypeError"
    /\ \A p \in writtenSinceReset :
          ReadBag(scriptValueStates, p) \in StateValues
    /\ (lastOp.op = "readState" /\ lastOp.key \in writtenSinceReset)
          => lastOp.saw \in StateValues

----------------------------------------------------------------------------
(* Properties of the conversion and of the registry (SpecValues) *)

\* The class the documentation assigns to a type tag, "none" for a tag it
\* does not list.
ClaimedKind(type) ==
    LET t == NormalizeString(type) IN
    IF t \in { <<>>, <<"s", "t", "a", "t", "i", "c">> } THEN "static"
    ELSE IF t = <<"c", "o", "d", "e">> THEN "code"
    ELSE IF t \in { <<"e", "n", "v">>,
                    <<"e", "n", "v", "i", "r", "o", "n", "m", "e", "n", "t">> }
         THEN "env"
    ELSE IF t = <<"f", "i", "l", "e">> THEN "file"
    ELSE IF t = <<"s", "c", "r", "i", "p", "t">> THEN "script"
    ELSE "none"

\* objs holds one Value per definition of `kept`, in the same order, each
\* of the documented class and carrying its definition's name.
OnePerDefinition(kept, values) ==
    /\ Len(values) = Len(kept)
    /\ \A k \in 1..Len(kept) :
          /\ values[k].kind = ClaimedKind(kept[k].type)
          /\ values[k].name = kept[k].name

\* The host names a definition restricts itself to: its isFor entries,
\* normalized, blank entries naming no host.
HostSet(item) ==
    { NormalizeString(item.isFor[i]) : i \in 1..Len(item.isFor) } \ { <<>> }

AppliesTo(item, name) ==
    /\ ~item.falsy
    /\ HostSet(item) = {} \/ name \in HostSet(item)
    /\ item.platformOk

\* C12: getValues returns, in configuration order, one Value per non-falsy
\* definition of a recognized type whose host set is empty or holds the
\* caller's name and which passes the platform filter, and after them
\* exactly cwd, homeDir, workspaceRoot; a definition whose non-empty host
\* set lacks the caller's name contributes no Value.
C12_Registry ==
    lastCall = "getValues" =>
        LET kept == SelectSeq(cfgValues,
                        LAMBDA i : AppliesTo(i, myName)
                                   /\ ClaimedKind(i.type) # "none")
            n    == Len(kept)
        IN  /\ Len(objs) = n + 3
            /\ OnePerDefinition(kept, SubSeq(objs, 1, n))
            /\ \A k \in 1..3 : objs[n + k].kind = "code"
            /\ objs[n + 1].name = <<"c", "w", "d">>
            /\ objs[n + 2].name = <<"h", "o", "m", "e", "D", "i", "r">>
            /\ objs[n + 3].name =
                  <<"w", "o", "r", "k", "s", "p", "a", "c", "e", "R", "o", "o", "t">>
            /\ \A i \in 1..Len(cfgValues) :
                  (/\ ~cfgValues[i].falsy
                   /\ HostSet(cfgValues[i]) # {}
                   /\ myName \notin HostSet(cfgValues[i]))
                  => Len(SelectSeq(SubSeq(cfgValues, 1, i), LAMBDA x :
                             AppliesTo(x, myName) /\ ClaimedKind(x.type) # "none"))
                     = Len(SelectSeq(SubSeq(cfgValues, 1, i - 1), LAMBDA x :
                             AppliesTo(x, myName) /\ ClaimedKind(x.type) # "none"))

\* A configuration whose first definition is restricted to another host,
\* whose second is restricted to this host in another spelling, and whose
\* third applies to all: the first is left out.
C12_Witness ==
    /\ lastCall = "getValues"
    /\ myName = <<"a">>
    /\ Len(cfgValues) = 3
    /\ cfgValues[1].name = <<"e">> /\ cfgValues[1].isFor = << <<"b">> >>
    /\ cfgValues[2].name = <<"b">> /\ cfgValues[2].isFor = << <<" ", "A">> >>
    /\ cfgValues[3].name = <<"s">>
    /\ Len(objs) = 5
    /\ objs[1].name = <<"b">> /\ objs[2].name = <<"s">>
    /\ objs[5].name =
          <<"w", "o", "r", "k", "s", "p", "a", "c", "e", "R", "o", "o", "t">>

\* C13: toValueObjects gives each non-falsy definition the class of its
\* normalized type tag, leaves out a definition with any other tag, and
\* keeps the remaining ones in their original relative order.
C13_TypeTags ==
    lastCall = "toValueObjects" =>
        OnePerDefinition(
            SelectSeq(cfgValues,
                LAMBDA i : ~i.falsy /\ ClaimedKind(i.type) # "none"),
            objs)

\* A tag in upper case, an unknown tag and a tag with a leading blank.
C13_Witness ==
    /\ lastCall = "toValueObjects"
    /\ Len(cfgValues) = 3
    /\ cfgValues[1].type = <<"S", "C", "R", "I", "P", "T">>
    /\ cfgValues[2].type = <<"f", "t", "p">>
    /\ cfgValues[3].type = <<" ", "C", "o", "d", "e">>
    /\ Len(objs) = 2
    /\ objs[1].kind = "script" /\ objs[2].kind = "code"

----------------------------------------------------------------------------
(* Properties of parsePlaceHolders (SpecPlaceholders) *)

\* str with every occurrence of every token, in any case, replaced by the
\* value of its field as it is, percent-encoded when `encode`.
RECURSIVE AllReplaced(_, _, _)
AllReplaced(str, info, encode) ==
    IF str = <<>> THEN <<>>
    ELSE LET ks == { k \in 1..Len(PlaceHolders) :
                        MatchesAt(str, 1, PlaceHolders[k].name) }
         IN  IF ks = {}
             THEN <<Head(str)>> \o AllReplaced(Tail(str), info, encode)
             ELSE LET k == CHOOSE x \in ks : TRUE
                      n == Len(PlaceHolders[k].name) + 3
                  IN  Transform(encode, info[PlaceHolders[k].field])
                      \o AllReplaced(SubSeq(str, n + 1, Len(str)), info, encode)

\* C11: when the request is dispatched every occurrence of each of the
\* seven tokens, in any case, has been replaced in the URL by the
\* percent-encoded value and in the header value by the value as it is.
C11_EveryOccurrence ==
    phStep = "dispatched" =>
        /\ targetUrl = AllReplaced(phUrl, FileInfo(phName), TRUE)
        /\ headersToSubmit = AllReplaced(phHeader, FileInfo(phName), FALSE)

====
